---- MODULE Spec2Model ----
(***************************************************************************)
(* Model of check.ts: the server monitor.  startMonitoring sets up the     *)
(* database, registers a 30 s interval timer and runs monitorServers; each *)
(* run of monitorServers probes every configured server, inserts one row   *)
(* per server and publishes one summary to Discord, creating the message   *)
(* when discordMessageId is null and editing it otherwise.                 *)
(***************************************************************************)
EXTENDS Integers, Sequences, FiniteSets, TLC

\* ------------------------------------------------------------------ bounds

\* Number of runs of monitorServers (the first one plus timer ticks) modelled.
MaxCycles == 2

\* Largest ping time, in ms, the classifier is exercised with.
MaxLatency == 201

\* Longest status list the aggregation is exercised with.
MaxStatuses == 3

\* Most socket events delivered to one TCP port check.
MaxEvents == 3

Cycles == 1..MaxCycles

\* ------------------------------------------------------- values of check.ts

\* `null' of a number | null (the ping time); times are >= 0.
Null == -1

\* `null' of discordMessageId; message ids of the sink are 1, 2, ...
NoId == 0

\* res.time of the ping library when it is no number ('unknown').
TimeUnknown == -2

\* A status string is modelled as its two tokens: the emoji and the label.
Good == <<"green", "Good">>
Degraded == <<"yellow", "Degraded">>
Down == <<"red", "Down">>
NoStatus == <<>>

Critical == <<"red", "Critical">>
Warning == <<"yellow", "Warning">>
Operational == <<"green", "Operational">>

\* String.prototype.includes for one emoji token.
Includes(status, emoji) == \E k \in DOMAIN status : status[k] = emoji

\* ------------------------------------------------------------ pure functions

pingServerZeroOnThrow(reply) ==
  IF reply.threw THEN 0
  ELSE IF reply.alive
       THEN (IF reply.time # TimeUnknown THEN reply.time ELSE Null)
       ELSE Null

\* pingServer: the reply of ping.promise.probe, or its rejection, to number | null.
pingServer(reply) ==
  IF reply.threw THEN Null
  ELSE IF reply.alive
       THEN (IF reply.time # TimeUnknown THEN reply.time ELSE Null)
       ELSE Null

\* checkTCPPort: the first socket event decides what the promise resolves to.
checkTCPPort(event) ==
  CASE event = "connect" -> TRUE
    [] event = "timeout" -> FALSE
    [] event = "error" -> FALSE

\* checkUDPPort: an 'error' event resolves false, the send callback resolves !err.
checkUDPPort(event) ==
  CASE event = "error" -> FALSE
    [] event = "sent" -> TRUE
    [] event = "senderr" -> FALSE

\* The port check checkServerStatus picks by protocol.
checkPort(protocol, event) ==
  IF protocol = "tcp" THEN checkTCPPort(event) ELSE checkUDPPort(event)

ClassifyOffByOne(pingTime, isPortOpen) ==
  IF pingTime # Null /\ isPortOpen
  THEN (IF pingTime <= 100 THEN Good
        ELSE IF pingTime < 200 THEN Degraded
        ELSE Down)
  ELSE Down

\* The status checkServerStatus computes from the two probe results.
Classify(pingTime, isPortOpen) ==
  IF pingTime # Null /\ isPortOpen
  THEN (IF pingTime < 100 THEN Good
        ELSE IF pingTime < 200 THEN Degraded
        ELSE Down)
  ELSE Down

OverallYellowFirst(statuses) ==
  IF \E k \in DOMAIN statuses : Includes(statuses[k].status, "yellow")
  THEN Warning
  ELSE IF \E k \in DOMAIN statuses : Includes(statuses[k].status, "red")
       THEN Critical
       ELSE Operational

\* overallStatus of sendDiscordNotification.
OverallStatus(statuses) ==
  IF \E k \in DOMAIN statuses : Includes(statuses[k].status, "red")
  THEN Critical
  ELSE IF \E k \in DOMAIN statuses : Includes(statuses[k].status, "yellow")
       THEN Warning
       ELSE Operational

\* serverFields of sendDiscordNotification: one entry per status, in order.
ServerFields(statuses) ==
  [k \in DOMAIN statuses |->
     [name |-> statuses[k].name, status |-> statuses[k].status,
      ping |-> statuses[k].ping]]

\* servers.find(s => s.name === name): the first server of that name.
Find(cfg, name) ==
  LET hits == {k \in DOMAIN cfg : cfg[k].name = name}
  IN cfg[CHOOSE k \in hits : \A j \in hits : k <= j]

\* ------------------------------------------------------------ configuration

\* The server sections of config.ini the model runs with.
TwoServers ==
  << [name |-> "web", ip |-> "10.0.0.1", port |-> 80, protocol |-> "tcp"],
     [name |-> "game", ip |-> "10.0.0.2", port |-> 27015, protocol |-> "udp"] >>

ThreeServers ==
  << [name |-> "web", ip |-> "10.0.0.1", port |-> 80, protocol |-> "tcp"],
     [name |-> "game", ip |-> "10.0.0.2", port |-> 27015, protocol |-> "udp"],
     [name |-> "db", ip |-> "10.0.0.3", port |-> 5432, protocol |-> "tcp"] >>

\* Two sections of config.ini that give the same name: nothing rejects them.
DuplicateNames ==
  << [name |-> "web", ip |-> "10.0.0.1", port |-> 80, protocol |-> "tcp"],
     [name |-> "web", ip |-> "10.0.0.9", port |-> 9000, protocol |-> "udp"] >>

Reply(threw, alive, time) == [threw |-> threw, alive |-> alive, time |-> time]

\* What the network does to one server for the length of a run: the reply to
\* the ping and the first event of the port check.
Conditions(protocol) ==
  LET open == IF protocol = "tcp" THEN "connect" ELSE "sent"
      closed == IF protocol = "tcp" THEN {"timeout", "error"} ELSE {"senderr", "error"}
  IN {[reply |-> Reply(FALSE, TRUE, t), event |-> open] : t \in {50, 150}}
     \cup {[reply |-> r, event |-> open] :
             r \in {Reply(TRUE, FALSE, 0), Reply(FALSE, FALSE, 0)}}
     \cup {[reply |-> Reply(FALSE, TRUE, 50), event |-> e] : e \in closed}

Networks(cfg) ==
  {n \in [DOMAIN cfg -> UNION {Conditions(p) : p \in {"tcp", "udp"}}] :
     \A k \in DOMAIN cfg : n[k] \in Conditions(cfg[k].protocol)}

\* Three servers: 50 ms and reachable, 150 ms and reachable, unreachable.
EndToEnd ==
  << [reply |-> Reply(FALSE, TRUE, 50), event |-> "connect"],
     [reply |-> Reply(FALSE, TRUE, 150), event |-> "sent"],
     [reply |-> Reply(FALSE, FALSE, 0), event |-> "timeout"] >>

\* The configurations and networks a run starts from.
Scenarios ==
  {[servers |-> TwoServers, net |-> n] : n \in Networks(TwoServers)}
  \cup {[servers |-> ThreeServers, net |-> EndToEnd]}
  \cup {[servers |-> DuplicateNames,
          net |-> << [reply |-> Reply(FALSE, TRUE, 50), event |-> "connect"],
                     [reply |-> Reply(FALSE, TRUE, 150), event |-> "sent"] >>]}

\* The status lists the functions and the harness are given.
StatusEntries ==
  { [name |-> "srv", status |-> Good, ping |-> 50],
    [name |-> "srv", status |-> Degraded, ping |-> 150],
    [name |-> "srv", status |-> Down, ping |-> Null] }

StatusLists(n) == UNION {[1..m -> StatusEntries] : m \in 1..n}

\* -------------------------------------------------------------------- state

VARIABLES
  main,              \* where startMonitoring is: "setup", "running", "failed"
                     \* ("harness" and "pure": the drivers of SeqSpec and PureSpec)
  alive,             \* FALSE once the process has been terminated
  timerSet,          \* TRUE once setInterval has registered the 30 s timer
  servers,           \* the server list built from config.ini
  net,               \* what the network does to each server
  discordMessageId,  \* the module-level variable of that name
  started,           \* number of runs of monitorServers started so far
  startedBy,         \* per run: "none", "start" (line 185) or "timer" (line 183)
  pc,                \* per run: where monitorServers is
  stage,             \* per run and server: the ping and the port check of
                     \* checkServerStatus, each "idle", "pending" or "settled"
  result,            \* per run and server: {name, status, ping} as computed so far
  insert,            \* per run and server: state of the db.run promise
  table,             \* the rows of server_status
  call,              \* per run: the request sendDiscordNotification made
  created,           \* number of messages the channel holds (ids 1..created)
  pureIn,            \* PureSpec: the arguments of the last function applied
  pureOut,           \* PureSpec: its result
  probe,             \* ProbeSpec: one call of checkServerStatus for a TCP server
  order              \* per traced run: the servers in the order their probes ended

vars ==
  << main, alive, timerSet, servers, net, discordMessageId, started, startedBy,
     pc, stage, result, insert, table, call, created, pureIn, pureOut, probe,
     order >>

NoCall ==
  [n |-> 0, kind |-> "none", target |-> NoId, result |-> "none", seen |-> 0,
   id |-> NoId, overall |-> NoStatus, fields |-> <<>>]

NoArgs == [fn |-> "none", ping |-> Null, open |-> FALSE, statuses |-> <<>>]

\* No call of checkServerStatus is being followed.
NoProbe ==
  [pc |-> "none", reply |-> Reply(FALSE, FALSE, 0), pingTime |-> Null,
   events |-> <<>>, promise |-> "none", destroyed |-> FALSE, status |-> NoStatus]

\* Everything but main, servers, net and order starts the same in every
\* specification.
InitRest ==
  /\ alive = TRUE
  /\ timerSet = FALSE
  /\ discordMessageId = NoId
  /\ started = 0
  /\ startedBy = [c \in Cycles |-> "none"]
  /\ pc = [c \in Cycles |-> "idle"]
  /\ stage = [c \in Cycles |-> <<>>]
  /\ result = [c \in Cycles |-> <<>>]
  /\ insert = [c \in Cycles |-> <<>>]
  /\ table = {}
  /\ call = [c \in Cycles |-> NoCall]
  /\ created = 0
  /\ pureIn = NoArgs
  /\ pureOut = NoStatus
  /\ probe = NoProbe

Init ==
  /\ main = "setup"
  /\ \E sc \in Scenarios : servers = sc.servers /\ net = sc.net
  /\ order = <<>>
  /\ InitRest

\* ------------------------------------------------------------ monitorServers

StartCycleBothChecks(c, by) ==
  /\ pc[c] = "idle"
  /\ c = started + 1
  /\ started' = c
  /\ startedBy' = [startedBy EXCEPT ![c] = by]
  /\ pc' = [pc EXCEPT ![c] = "probing"]
  /\ stage' = [stage EXCEPT ![c] =
                 [k \in DOMAIN servers |-> [ping |-> "pending", port |-> "pending"]]]
  /\ result' = [result EXCEPT ![c] =
                  [k \in DOMAIN servers |->
                     [name |-> servers[k].name, status |-> NoStatus, ping |-> Null]]]

\* monitorServers up to its first suspension on the network: dbPromise is
\* settled, so every checkServerStatus is called and awaits its ping.
StartCycle(c, by) ==
  /\ pc[c] = "idle"
  /\ c = started + 1
  /\ started' = c
  /\ startedBy' = [startedBy EXCEPT ![c] = by]
  /\ pc' = [pc EXCEPT ![c] = "probing"]
  /\ stage' = [stage EXCEPT ![c] =
                 [k \in DOMAIN servers |-> [ping |-> "pending", port |-> "idle"]]]
  /\ result' = [result EXCEPT ![c] =
                  [k \in DOMAIN servers |->
                     [name |-> servers[k].name, status |-> NoStatus, ping |-> Null]]]

SetupOkTimerOnly ==
  /\ main = "setup"
  /\ main' = "running"
  /\ timerSet' = TRUE
  /\ UNCHANGED << alive, servers, net, discordMessageId, started, startedBy, pc,
                  stage, result, insert, table, call, created, pureIn, pureOut,
                  probe, order >>

\* setupDatabase succeeded: the timer is registered, then monitorServers is called.
SetupOk ==
  /\ main = "setup"
  /\ main' = "running"
  /\ timerSet' = TRUE
  /\ StartCycle(1, "start")
  /\ UNCHANGED << alive, servers, net, discordMessageId, insert, table, call,
                  created, pureIn, pureOut, probe, order >>

\* setupDatabase rejected: startMonitoring ends before the timer is registered.
SetupFail ==
  /\ main = "setup"
  /\ main' = "failed"
  /\ UNCHANGED << alive, timerSet, servers, net, discordMessageId, started,
                  startedBy, pc, stage, result, insert, table, call, created,
                  pureIn, pureOut, probe, order >>

TimerFireSkipIfBusy ==
  /\ alive
  /\ timerSet
  /\ started < MaxCycles
  /\ \A c \in Cycles : pc[c] \in {"idle", "done", "rejected"}
  /\ StartCycle(started + 1, "timer")
  /\ UNCHANGED << main, alive, timerSet, servers, net, discordMessageId, insert,
                  table, call, created, pureIn, pureOut, probe, order >>

\* The interval timer fires, whatever the earlier runs are doing.
TimerFire ==
  /\ alive
  /\ timerSet
  /\ started < MaxCycles
  /\ StartCycle(started + 1, "timer")
  /\ UNCHANGED << main, alive, timerSet, servers, net, discordMessageId, insert,
                  table, call, created, pureIn, pureOut, probe, order >>

\* pingServer settles for server k of run c; the port check is started.
PingDone(c, k) ==
  /\ alive
  /\ pc[c] = "probing"
  /\ stage[c][k].ping = "pending"
  /\ stage' = [stage EXCEPT ![c][k] = [ping |-> "settled", port |-> "pending"]]
  /\ result' = [result EXCEPT ![c][k].ping = pingServer(net[k].reply)]
  /\ UNCHANGED << main, alive, timerSet, servers, net, discordMessageId, started,
                  startedBy, pc, insert, table, call, created, pureIn, pureOut, probe, order >>

IssueInsertsFirstOnly(c) ==
  insert' = [insert EXCEPT ![c] = [k \in {1} |-> "pending"]]

\* The db.run calls of monitorServers: one per status, all issued at once.
IssueInserts(c) ==
  insert' = [insert EXCEPT ![c] = [k \in DOMAIN result[c] |-> "pending"]]

PortDoneFirstWins(c, k) ==
  /\ alive
  /\ pc[c] = "probing"
  /\ stage[c][k].port = "pending"
  /\ stage' = [stage EXCEPT ![c][k].port = "settled"]
  /\ result' = [result EXCEPT ![c][k].status =
                  Classify(result[c][k].ping,
                           checkPort(servers[k].protocol, net[k].event))]
  /\ order' = IF c \in DOMAIN order THEN [order EXCEPT ![c] = Append(@, k)] ELSE order
  /\ pc' = [pc EXCEPT ![c] = "recording"]
  /\ IssueInserts(c)
  /\ UNCHANGED << main, alive, timerSet, servers, net, discordMessageId, started,
                  startedBy, table, call, created, pureIn, pureOut, probe >>

\* The port check settles for server k of run c: checkServerStatus returns.
\* When it is the last one, Promise.all resolves and the inserts are issued.
PortDone(c, k) ==
  /\ alive
  /\ pc[c] = "probing"
  /\ stage[c][k].port = "pending"
  /\ stage' = [stage EXCEPT ![c][k].port = "settled"]
  /\ result' = [result EXCEPT ![c][k].status =
                  Classify(result[c][k].ping,
                           checkPort(servers[k].protocol, net[k].event))]
  /\ order' = IF c \in DOMAIN order THEN [order EXCEPT ![c] = Append(@, k)] ELSE order
  /\ IF \A j \in DOMAIN stage[c] : j # k => stage[c][j].port = "settled"
     THEN /\ pc' = [pc EXCEPT ![c] = "recording"]
          /\ IssueInserts(c)
     ELSE UNCHANGED << pc, insert >>
  /\ UNCHANGED << main, alive, timerSet, servers, net, discordMessageId, started,
                  startedBy, table, call, created, pureIn, pureOut, probe >>

\* The row db.run is given for status k of run c (cycle and slot identify the
\* insert; they stand for the autoincrement id and the timestamp).
Row(c, k) ==
  LET st == result[c][k]
      sv == Find(servers, st.name)
  IN [name |-> st.name, ip |-> sv.ip, port |-> sv.port, protocol |-> sv.protocol,
      status |-> st.status, ping |-> st.ping, cycle |-> c, slot |-> k]

SendBeginCompletionOrder(c, statuses) ==
  LET given == IF c \in DOMAIN order /\ Len(order[c]) = Len(statuses)
               THEN [i \in DOMAIN statuses |-> statuses[order[c][i]]]
               ELSE statuses
  IN /\ pc' = [pc EXCEPT ![c] =
                  IF discordMessageId # NoId THEN "patching" ELSE "posting"]
     /\ call' = [call EXCEPT ![c] =
                   [n |-> call[c].n + 1,
                    kind |-> IF discordMessageId # NoId THEN "patch" ELSE "post",
                    target |-> discordMessageId, result |-> "pending",
                    seen |-> created, id |-> NoId,
                    overall |-> OverallStatus(given),
                    fields |-> ServerFields(given)]]

SendBeginAlwaysPost(c, statuses) ==
  /\ pc' = [pc EXCEPT ![c] = "posting"]
  /\ call' = [call EXCEPT ![c] =
                [n |-> call[c].n + 1, kind |-> "post",
                 target |-> discordMessageId, result |-> "pending",
                 seen |-> created, id |-> NoId,
                 overall |-> OverallStatus(statuses),
                 fields |-> ServerFields(statuses)]]

\* sendDiscordNotification up to its await: the branch on discordMessageId is
\* taken and the PATCH or POST request is made.
SendBegin(c, statuses) ==
  /\ pc' = [pc EXCEPT ![c] = IF discordMessageId # NoId THEN "patching" ELSE "posting"]
  /\ call' = [call EXCEPT ![c] =
                [n |-> call[c].n + 1,
                 kind |-> IF discordMessageId # NoId THEN "patch" ELSE "post",
                 target |-> discordMessageId, result |-> "pending",
                 seen |-> created, id |-> NoId,
                 overall |-> OverallStatus(statuses),
                 fields |-> ServerFields(statuses)]]

InsertOkSendsAtOnce(c, k) ==
  /\ alive
  /\ insert[c][k] = "pending"
  /\ insert' = [insert EXCEPT ![c][k] = "ok"]
  /\ table' = table \cup {Row(c, k)}
  /\ IF pc[c] = "recording"
     THEN SendBegin(c, result[c])
     ELSE UNCHANGED << pc, call >>
  /\ UNCHANGED << main, alive, timerSet, servers, net, discordMessageId, started,
                  startedBy, stage, result, created, pureIn, pureOut, probe, order >>

\* An insert resolves.  When it is the last one, Promise.all resolves and
\* sendDiscordNotification is called.
InsertOk(c, k) ==
  /\ alive
  /\ insert[c][k] = "pending"
  /\ insert' = [insert EXCEPT ![c][k] = "ok"]
  /\ table' = table \cup {Row(c, k)}
  /\ IF pc[c] = "recording" /\ \A j \in DOMAIN insert[c] : j # k => insert[c][j] = "ok"
     THEN SendBegin(c, result[c])
     ELSE UNCHANGED << pc, call >>
  /\ UNCHANGED << main, alive, timerSet, servers, net, discordMessageId, started,
                  startedBy, stage, result, created, pureIn, pureOut, probe, order >>

\* An insert rejects.  The first rejection rejects Promise.all and with it
\* monitorServers and its caller, which nothing handles: the runtime either
\* terminates the process or only warns.
InsertFail(c, k) ==
  /\ alive
  /\ insert[c][k] = "pending"
  /\ insert' = [insert EXCEPT ![c][k] = "failed"]
  /\ IF pc[c] = "recording"
     THEN /\ pc' = [pc EXCEPT ![c] = "rejected"]
          /\ alive' \in BOOLEAN
     ELSE UNCHANGED << pc, alive >>
  /\ UNCHANGED << main, timerSet, servers, net, discordMessageId, started,
                  startedBy, stage, result, table, call, created, pureIn, pureOut, probe, order >>

\* ---------------------------------------------------- sendDiscordNotification

\* The POST succeeds: the channel holds a new message, whose id is stored.
PostOk(c) ==
  /\ alive
  /\ pc[c] = "posting"
  /\ created' = created + 1
  /\ discordMessageId' = created + 1
  /\ call' = [call EXCEPT ![c].result = "ok", ![c].id = created + 1]
  /\ pc' = [pc EXCEPT ![c] = "done"]
  /\ UNCHANGED << main, alive, timerSet, servers, net, started, startedBy, stage,
                  result, insert, table, pureIn, pureOut, probe, order >>

RequestFailClearsId(c) ==
  /\ alive
  /\ pc[c] \in {"posting", "patching"}
  /\ call' = [call EXCEPT ![c].result = "failed"]
  /\ pc' = [pc EXCEPT ![c] = "done"]
  /\ discordMessageId' = NoId
  /\ UNCHANGED << main, alive, timerSet, servers, net, started,
                  startedBy, stage, result, insert, table, created, pureIn, pureOut, probe, order >>

\* The request fails: the catch block logs and the function returns.
RequestFail(c) ==
  /\ alive
  /\ pc[c] \in {"posting", "patching"}
  /\ call' = [call EXCEPT ![c].result = "failed"]
  /\ pc' = [pc EXCEPT ![c] = "done"]
  /\ UNCHANGED << main, alive, timerSet, servers, net, discordMessageId, started,
                  startedBy, stage, result, insert, table, created, pureIn, pureOut, probe, order >>

\* The PATCH succeeds: the message is edited in place.
PatchOk(c) ==
  /\ alive
  /\ pc[c] = "patching"
  /\ call' = [call EXCEPT ![c].result = "ok", ![c].id = call[c].target]
  /\ pc' = [pc EXCEPT ![c] = "done"]
  /\ UNCHANGED << main, alive, timerSet, servers, net, discordMessageId, started,
                  startedBy, stage, result, insert, table, created, pureIn, pureOut, probe, order >>

Next ==
  \/ SetupOk
  \/ SetupFail
  \/ TimerFire
  \/ \E c \in Cycles : \E k \in DOMAIN stage[c] : PingDone(c, k)
  \/ \E c \in Cycles : \E k \in DOMAIN stage[c] : PortDone(c, k)
  \/ \E c \in Cycles : \E k \in DOMAIN insert[c] : InsertOk(c, k)
  \/ \E c \in Cycles : \E k \in DOMAIN insert[c] : InsertFail(c, k)
  \/ \E c \in Cycles : PostOk(c)
  \/ \E c \in Cycles : PatchOk(c)
  \/ \E c \in Cycles : RequestFail(c)

Spec == Init /\ [][Next]_vars


\* OrderSpec: the loop with two servers, one at 50 ms and one at 150 ms, the
\* order in which the probes of each run end being kept.
InitOrder ==
  /\ main = "setup"
  /\ servers = TwoServers
  /\ net = << [reply |-> Reply(FALSE, TRUE, 50), event |-> "connect"],
              [reply |-> Reply(FALSE, TRUE, 150), event |-> "sent"] >>
  /\ order = [c \in Cycles |-> <<>>]
  /\ InitRest

OrderSpec == InitOrder /\ [][Next]_vars

\* ------------------------------------------- sendDiscordNotification, in sequence

\* SeqSpec: sendDiscordNotification called again and again, each call made
\* after the one before has returned.
InitSeq ==
  /\ main = "harness"
  /\ servers = TwoServers
  /\ net = [k \in DOMAIN TwoServers |->
              [reply |-> Reply(FALSE, TRUE, 50),
               event |-> IF TwoServers[k].protocol = "tcp" THEN "connect" ELSE "sent"]]
  /\ order = <<>>
  /\ InitRest

SeqCall(c, statuses) ==
  /\ main = "harness"
  /\ \A d \in Cycles : pc[d] \in {"idle", "done"}
  /\ pc[c] = "idle"
  /\ c = started + 1
  /\ started' = c
  /\ result' = [result EXCEPT ![c] = statuses]
  /\ SendBegin(c, statuses)
  /\ UNCHANGED << main, alive, timerSet, servers, net, discordMessageId, startedBy,
                  stage, insert, table, created, pureIn, pureOut, probe, order >>

NextSeq ==
  \/ \E c \in Cycles, statuses \in StatusLists(2) : SeqCall(c, statuses)
  \/ \E c \in Cycles : PostOk(c)
  \/ \E c \in Cycles : PatchOk(c)
  \/ \E c \in Cycles : RequestFail(c)

SeqSpec == InitSeq /\ [][NextSeq]_vars

\* ------------------------------------------------- the functions on their own

\* PureSpec: the classification and the aggregation applied to every input
\* within the bounds.
InitPure ==
  /\ main = "pure"
  /\ servers = TwoServers
  /\ net = [k \in DOMAIN TwoServers |->
              [reply |-> Reply(FALSE, TRUE, 50),
               event |-> IF TwoServers[k].protocol = "tcp" THEN "connect" ELSE "sent"]]
  /\ order = <<>>
  /\ InitRest

ApplyClassify ==
  /\ main = "pure"
  /\ \E l \in {Null} \cup 0..MaxLatency, r \in BOOLEAN :
       /\ pureIn' = [fn |-> "classify", ping |-> l, open |-> r, statuses |-> <<>>]
       /\ pureOut' = Classify(l, r)
  /\ UNCHANGED << main, alive, timerSet, servers, net, discordMessageId, started,
                  startedBy, pc, stage, result, insert, table, call, created, probe, order >>

ApplyOverall ==
  /\ main = "pure"
  /\ \E s \in StatusLists(MaxStatuses) :
       /\ pureIn' = [fn |-> "overall", ping |-> Null, open |-> FALSE, statuses |-> s]
       /\ pureOut' = OverallStatus(s)
  /\ UNCHANGED << main, alive, timerSet, servers, net, discordMessageId, started,
                  startedBy, pc, stage, result, insert, table, call, created, probe, order >>

NextPure == ApplyClassify \/ ApplyOverall

PureSpec == InitPure /\ [][NextPure]_vars


\* ------------------------------------------- checkServerStatus, event by event

\* ProbeSpec: one call of checkServerStatus for a TCP server, the socket
\* events of its port check delivered one at a time and in any order.

\* What ping.promise.probe can answer.
PingReplies ==
  {Reply(TRUE, FALSE, 0), Reply(FALSE, FALSE, 0), Reply(FALSE, TRUE, TimeUnknown)}
  \cup {Reply(FALSE, TRUE, t) : t \in {0, 50, 150, 250}}

\* resolve(v) of the promise of checkTCPPort: only the first call settles it.
Resolve(promise, v) == IF promise = "pending" THEN v ELSE promise

InitProbe ==
  /\ main = "probe"
  /\ servers = TwoServers
  /\ net = [k \in DOMAIN TwoServers |->
              [reply |-> Reply(FALSE, TRUE, 50),
               event |-> IF TwoServers[k].protocol = "tcp" THEN "connect" ELSE "sent"]]
  /\ order = <<>>
  /\ InitRest

ProbeUnchanged ==
  UNCHANGED << main, alive, timerSet, servers, net, discordMessageId, started,
               startedBy, pc, stage, result, insert, table, call, created,
               pureIn, pureOut, order >>

\* checkServerStatus is called and awaits pingServer.
ProbeCall ==
  /\ main = "probe"
  /\ probe.pc = "none"
  /\ \E r \in PingReplies : probe' = [probe EXCEPT !.pc = "ping", !.reply = r]
  /\ ProbeUnchanged

\* pingServer settles; checkTCPPort makes its socket and starts to connect.
ProbePingSettles ==
  /\ main = "probe"
  /\ probe.pc = "ping"
  /\ probe' = [probe EXCEPT !.pc = "port", !.pingTime = pingServer(probe.reply),
                            !.promise = "pending"]
  /\ ProbeUnchanged

\* The 'connect' handler.
OnConnect ==
  /\ main = "probe"
  /\ probe.promise # "none"
  /\ Len(probe.events) < MaxEvents
  /\ probe' = [probe EXCEPT !.events = Append(@, "connect"), !.destroyed = TRUE,
                            !.promise = Resolve(@, "true")]
  /\ ProbeUnchanged

\* The 'timeout' handler.
OnTimeout ==
  /\ main = "probe"
  /\ probe.promise # "none"
  /\ Len(probe.events) < MaxEvents
  /\ probe' = [probe EXCEPT !.events = Append(@, "timeout"), !.destroyed = TRUE,
                            !.promise = Resolve(@, "false")]
  /\ ProbeUnchanged

OnErrorIgnored ==
  /\ main = "probe"
  /\ probe.promise # "none"
  /\ Len(probe.events) < MaxEvents
  /\ probe' = [probe EXCEPT !.events = Append(@, "error")]
  /\ ProbeUnchanged

\* The 'error' handler.
OnError ==
  /\ main = "probe"
  /\ probe.promise # "none"
  /\ Len(probe.events) < MaxEvents
  /\ probe' = [probe EXCEPT !.events = Append(@, "error"),
                            !.promise = Resolve(@, "false")]
  /\ ProbeUnchanged

\* The promise of checkTCPPort is settled: checkServerStatus computes the
\* status and returns.
ProbeReturn ==
  /\ main = "probe"
  /\ probe.pc = "port"
  /\ probe.promise \in {"true", "false"}
  /\ probe' = [probe EXCEPT !.pc = "done",
                            !.status = Classify(probe.pingTime, probe.promise = "true")]
  /\ ProbeUnchanged

NextProbe ==
  \/ ProbeCall
  \/ ProbePingSettles
  \/ OnConnect
  \/ OnTimeout
  \/ OnError
  \/ ProbeReturn

ProbeSpec == InitProbe /\ [][NextProbe]_vars

\* ------------------------------------------------------------------- claims

Posts == {c \in Cycles : call[c].kind = "post"}
Patches == {c \in Cycles : call[c].kind = "patch"}
Creates == {c \in Posts : call[c].result = "ok"}
FailedPosts == {c \in Posts : call[c].result = "failed"}

\* Every call made so far has returned.
Quiescent == \A c \in Cycles : pc[c] \in {"idle", "done"}

\* The rows run c has written for server k.
Rows(c, k) == {r \in table : r.cycle = c /\ r.slot = k /\ r.name = servers[k].name}

\* Run c has ended and none of its inserts is still pending.
Settled(c) ==
  /\ pc[c] \in {"done", "rejected"}
  /\ \A k \in DOMAIN insert[c] : insert[c][k] # "pending"

\* C1: over any execution of the loop, overlapping runs included, at most one
\* create ever succeeds on the channel, and every request made after a create
\* has succeeded is an update of that report.
C1_SingleReport ==
  /\ Cardinality(Creates) <= 1
  /\ \A c \in Cycles :
       call[c].seen >= 1 =>
         /\ call[c].kind = "patch"
         /\ \A d \in Creates : call[c].target = call[d].id

\* C2: N >= 1 calls of sendDiscordNotification in sequence, starting with the
\* handle unset, make exactly 1 create and N-1 updates, every update aimed
\* at the id the create returned.
C2_OneCreateThenUpdates ==
  (Quiescent /\ started >= 1) =>
    /\ Cardinality(Posts) = 1
    /\ Cardinality(Patches) = started - 1
    /\ \A c \in Patches : \E d \in Creates : call[c].target = call[d].id

\* C2, amended: in a sequence of calls every call made while no create has
\* succeeded is a create, at most one create succeeds, every later call is an
\* update aimed at the id that create returned; when no create fails that is
\* exactly 1 create and N-1 updates.
C2_OneSuccessfulCreateThenUpdates ==
  /\ Cardinality(Creates) <= 1
  /\ (Creates # {}) = (discordMessageId # NoId)
  /\ \A c \in Patches : \E d \in Creates : call[c].target = call[d].id /\ d < c
  /\ \A c \in Posts : \A d \in Cycles : d < c => d \in FailedPosts
  /\ (Quiescent /\ started >= 1) =>
       /\ Cardinality(Posts) + Cardinality(Patches) = started
       /\ Cardinality(Posts) = Cardinality(FailedPosts) + Cardinality(Creates)
       /\ FailedPosts = {} =>
            (Cardinality(Posts) = 1 /\ Cardinality(Patches) = started - 1)

C2_Witness ==
  /\ Quiescent
  /\ started >= 2
  /\ \E c \in Creates : \E d \in Patches :
       call[d].result = "ok" /\ call[d].target = call[c].id

\* C3: every run of monitorServers that has ended has appended exactly one
\* row per configured server and has made at most one request to the channel.
C3_OneRowPerServerEveryCycle ==
  \A c \in Cycles :
    /\ call[c].n <= 1
    /\ Settled(c) => \A k \in DOMAIN servers : Cardinality(Rows(c, k)) = 1

\* C3, amended: every run that gets past probing issues exactly one insert per
\* configured server, appends exactly one row for each insert that succeeds
\* and none otherwise, and makes at most one request to the channel; a run
\* whose inserts all succeed has written one row per server and made exactly
\* one request.
C3_OneInsertPerServerEveryCycle ==
  \A c \in Cycles :
    /\ call[c].n <= 1
    /\ pc[c] \notin {"idle", "probing"} => DOMAIN insert[c] = DOMAIN servers
    /\ \A k \in DOMAIN insert[c] :
         Cardinality(Rows(c, k)) = (IF insert[c][k] = "ok" THEN 1 ELSE 0)
    /\ Cardinality({r \in table : r.cycle = c}) =
         Cardinality({k \in DOMAIN insert[c] : insert[c][k] = "ok"})
    /\ (pc[c] \notin {"idle", "probing"}
         /\ \A k \in DOMAIN insert[c] : insert[c][k] = "ok") =>
           /\ \A k \in DOMAIN servers : Cardinality(Rows(c, k)) = 1
           /\ call[c].n = 1

\* Three servers, Good, Degraded and Down: 3 rows, 1 request, overall Critical.
C3_Witness ==
  /\ servers = ThreeServers
  /\ pc[1] = "done"
  /\ Cardinality({r \in table : r.cycle = 1}) = 3
  /\ \E r \in Rows(1, 1) : r.status = Good
  /\ \E r \in Rows(1, 2) : r.status = Degraded
  /\ \E r \in Rows(1, 3) : r.status = Down
  /\ call[1].n = 1
  /\ call[1].overall = Critical

\* C4: no failure of a storage write or of a request escapes a run:
\* monitorServers never ends with an error nothing catches, and the process
\* lives on to start later runs.
C4_NoFailureEscapes ==
  /\ alive
  /\ \A c \in Cycles : pc[c] # "rejected"

\* C5: when an insert of a run fails, the other inserts of that run are still
\* performed and the run is not aborted: it still makes its request.
C5_RecorderIsolation ==
  \A c \in Cycles :
    (/\ \E k \in DOMAIN insert[c] : insert[c][k] = "failed"
     /\ \A k \in DOMAIN insert[c] : insert[c][k] \in {"ok", "failed"}) =>
      /\ DOMAIN insert[c] = DOMAIN servers
      /\ pc[c] # "rejected"
      /\ call[c].n = 1

\* C6: a request that fails leaves discordMessageId as it is and the call
\* returns normally; the next request is chosen by the handle as it then
\* stands: a create while it is unset, an update of that id once it is set.
C6_FailureKeepsHandle ==
  [][\A c \in Cycles :
       /\ (call[c].result = "pending" /\ call'[c].result = "failed") =>
            /\ discordMessageId' = discordMessageId
            /\ pc'[c] = "done"
            /\ alive' = alive
       /\ (call[c].n = 0 /\ call'[c].n = 1) =>
            IF discordMessageId = NoId
            THEN call'[c].kind = "post"
            ELSE call'[c].kind = "patch" /\ call'[c].target = discordMessageId]_vars

\* The create of run 1 failed and run 2 is creating again.
C6_Witness ==
  /\ call[1].kind = "post"
  /\ call[1].result = "failed"
  /\ pc[1] = "done"
  /\ discordMessageId = NoId
  /\ call[2].kind = "post"
  /\ call[2].result = "pending"

\* C7: the handle is unset at startup, is set only by a successful create,
\* and once set is never unset and never replaced by another id.
C7_HandleLifecycle ==
  [][/\ discordMessageId # NoId => discordMessageId' = discordMessageId
     /\ discordMessageId' # discordMessageId =>
          \E c \in Cycles : call[c].kind = "post" /\ call[c].result = "pending"
                            /\ call'[c].result = "ok"
                            /\ discordMessageId' = call'[c].id]_vars

\* C8: the status is Down when the port is closed or there is no ping time,
\* Good below 100 ms, Degraded from 100 ms to below 200 ms, Down from 200 ms.
C8_Classification ==
  pureIn.fn = "classify" =>
    pureOut = (CASE ~pureIn.open \/ pureIn.ping = Null -> Down
                 [] pureIn.open /\ pureIn.ping # Null /\ pureIn.ping < 100 -> Good
                 [] pureIn.open /\ pureIn.ping >= 100 /\ pureIn.ping < 200 -> Degraded
                 [] pureIn.open /\ pureIn.ping >= 200 -> Down)

C8_Witness ==
  /\ pureIn.fn = "classify"
  /\ pureIn.open
  /\ pureIn.ping = 200
  /\ pureOut = Down

\* C9: the overall status of a non-empty status list is Critical when some
\* status is Down, else Warning when some status is Degraded, else Operational.
C9_WorstOf ==
  (pureIn.fn = "overall" /\ pureIn.statuses # <<>>) =>
    LET given == {pureIn.statuses[k].status : k \in DOMAIN pureIn.statuses}
    IN pureOut = (IF Down \in given THEN Critical
                  ELSE IF Degraded \in given THEN Warning
                  ELSE Operational)

C9_Witness ==
  /\ pureIn.fn = "overall"
  /\ Len(pureIn.statuses) = 2
  /\ pureIn.statuses[1].status = Good
  /\ pureIn.statuses[2].status = Degraded
  /\ pureOut = Warning

\* The probe of server k fails: the ping errors or gets no reply, or the port
\* check times out or errors.
ProbeFails(k) ==
  \/ net[k].reply.threw
  \/ ~net[k].reply.alive
  \/ net[k].event \in {"timeout", "error", "senderr"}

\* C10: a run in which the probe of server E fails still computes a status
\* for E, which is Down, inserts a row for E with status Down, and goes on to
\* record every other server and to publish.
C10_ProbeFailureIsDown ==
  \A c \in Cycles :
    /\ \A k \in DOMAIN stage[c] :
         (ProbeFails(k) /\ stage[c][k].port = "settled") => result[c][k].status = Down
    /\ (pc[c] \notin {"idle", "probing"} /\ \E k \in DOMAIN servers : ProbeFails(k)) =>
         /\ DOMAIN insert[c] = DOMAIN servers
         /\ \A k \in DOMAIN servers :
              insert[c][k] = "ok" =>
                \E r \in Rows(c, k) : ProbeFails(k) => r.status = Down
         /\ (\A k \in DOMAIN servers : insert[c][k] = "ok") =>
              /\ call[c].n = 1
              /\ Len(call[c].fields) = Len(servers)
              /\ \A k \in DOMAIN servers :
                   ProbeFails(k) => call[c].fields[k].status = Down

\* The ping of server 1 threw; its row says Down, server 2 has its row and
\* the report went out.
C10_Witness ==
  /\ net[1].reply.threw
  /\ ~ProbeFails(2)
  /\ pc[1] = "done"
  /\ \E r \in Rows(1, 1) : r.status = Down /\ r.ping = Null
  /\ \E r \in Rows(1, 2) : r.status = Good
  /\ call[1].result = "ok"


\* checkServerStatus has returned for server k of run c.
ProbeEnded(c, k) ==
  /\ k \in DOMAIN stage[c]
  /\ stage[c][k].ping = "settled"
  /\ stage[c][k].port = "settled"

\* C11: once setup is done the first run has been started by startMonitoring
\* itself, before the timer has fired at all; every later run is started by
\* the timer, and no run starts before setup is done.
C11_ImmediateFirstRun ==
  /\ main = "running" => (timerSet /\ started >= 1 /\ startedBy[1] = "start")
  /\ main \in {"setup", "failed"} => (started = 0 /\ ~timerSet)
  /\ \A c \in Cycles :
       /\ (pc[c] # "idle") = (c <= started)
       /\ (c > 1 /\ c <= started) => startedBy[c] = "timer"
       /\ c > started => startedBy[c] = "none"
       /\ startedBy[c] = "timer" => (c > 1 /\ startedBy[1] = "start")

C11_Witness ==
  /\ main = "running"
  /\ startedBy[1] = "start"
  /\ startedBy[2] = "timer"

\* C12: no insert and no request of a run is made before checkServerStatus
\* has returned for every configured server of that run; a server whose probe
\* is still under way holds the run back but does not make it fail.
C12_JoinAll ==
  \A c \in Cycles :
    /\ (insert[c] # <<>> \/ call[c].n > 0) =>
         \A k \in DOMAIN servers : ProbeEnded(c, k)
    /\ (\E k \in DOMAIN servers : ~ProbeEnded(c, k)) =>
         /\ pc[c] \in {"idle", "probing"}
         /\ \A r \in table : r.cycle # c
    /\ pc[c] = "rejected" => \E k \in DOMAIN insert[c] : insert[c][k] = "failed"

\* Server 2 of run 1 is through, server 1 is not: nothing has been inserted.
C12_Witness ==
  /\ pc[1] = "probing"
  /\ ProbeEnded(1, 2)
  /\ ~ProbeEnded(1, 1)
  /\ insert[1] = <<>>
  /\ call[1].n = 0


C14_ChecksConcurrent ==
  \A c \in Cycles : \A k \in DOMAIN stage[c] :
    /\ stage[c][k].ping = "pending" => stage[c][k].port = "pending"
    /\ result[c][k].status # NoStatus => ProbeEnded(c, k)

\* C14, amended: for one server the port check is started only once the ping
\* has settled, so the two are never under way together; the status is
\* computed only after both have settled.
C14_PortCheckAfterPing ==
  \A c \in Cycles : \A k \in DOMAIN stage[c] :
    /\ stage[c][k].port # "idle" => stage[c][k].ping = "settled"
    /\ stage[c][k].ping = "pending" => stage[c][k].port = "idle"
    /\ (result[c][k].status # NoStatus) = ProbeEnded(c, k)

\* The ping of server 1 has settled and its port check is under way; server 2
\* has its status.
C14_Witness ==
  /\ pc[1] = "probing"
  /\ stage[1][1] = [ping |-> "settled", port |-> "pending"]
  /\ result[1][1].status = NoStatus
  /\ ProbeEnded(1, 2)
  /\ result[1][2].status # NoStatus


\* C15: the timer fires whatever the earlier runs are doing: as long as the
\* process lives and the timer is registered a new run can start, also while
\* earlier runs are still in flight; so two runs can both have read the unset
\* handle before either has written it.
C15_TimerUnconditional ==
  (alive /\ timerSet /\ started < MaxCycles) => ENABLED TimerFire

\* Runs 1 and 2 are both in flight, both found the handle unset and both are
\* awaiting their POST.
C15_Witness ==
  /\ startedBy[2] = "timer"
  /\ pc[1] = "posting"
  /\ pc[2] = "posting"
  /\ call[1].target = NoId
  /\ call[2].target = NoId
  /\ discordMessageId = NoId


Expected(k) ==
  [name |-> servers[k].name,
   status |-> Classify(pingServer(net[k].reply),
                       checkPort(servers[k].protocol, net[k].event)),
   ping |-> pingServer(net[k].reply)]

\* C17: the statuses a run publishes, and so the detail entries of its
\* report, are in the order of the configuration, entry k being what was
\* computed for server k, whatever the order in which the probes ended.
C17_ConfigurationOrder ==
  \A c \in Cycles :
    /\ \A k \in DOMAIN result[c] : result[c][k].name = servers[k].name
    /\ call[c].n > 0 =>
         /\ Len(order[c]) = Len(servers)
         /\ Len(call[c].fields) = Len(servers)
         /\ \A k \in DOMAIN servers : call[c].fields[k] = Expected(k)

\* The probe of server 2 ended before that of server 1 in run 1; its report
\* lists web, then game.
C17_Witness ==
  /\ order[1] = <<2, 1>>
  /\ call[1].n = 1
  /\ call[1].result = "ok"
  /\ [k \in DOMAIN call[1].fields |-> call[1].fields[k].name] = <<"web", "game">>
  /\ [k \in DOMAIN call[1].fields |-> call[1].fields[k].status] = <<Good, Degraded>>


\* C18: every row carries the address, the port and the protocol of the
\* server whose probe gave its status and its ping time, whatever the
\* configured list, lists with a repeated name included.
C18_RowDescribesProbedServer ==
  \A r \in table :
    /\ r.status = result[r.cycle][r.slot].status
    /\ r.ping = result[r.cycle][r.slot].ping
    /\ r.name = servers[r.slot].name
    /\ r.ip = servers[r.slot].ip
    /\ r.port = servers[r.slot].port
    /\ r.protocol = servers[r.slot].protocol

====
